---- MODULE Spec2Model ----
(***************************************************************************)
(* Model of src/src/main.rs: the Stage of a first-person camera demo and   *)
(* its EventHandler callbacks (update, key_down_event, key_up_event,       *)
(* resize_event, raw_mouse_motion, draw).                                  *)
(*                                                                         *)
(* Numbers.  The program computes in f32.  The model computes in decimal   *)
(* fixed point: an integer n stands for the real n / Scale, so that        *)
(*   - a length of 1.0 is 100, a time of 1.0 s is 100,                     *)
(*   - an angle of 1 rad is 100, and a mouse delta of dx pixels turns the  *)
(*     camera by dx * 0.01 rad = dx units exactly,                         *)
(*   - a matrix entry of 1.0 is 100.                                       *)
(* Products and quotients round to the nearest unit (ties away from 0),    *)
(* the fixed-point counterpart of f32 rounding.  sin and cos are computed  *)
(* by range reduction and a Taylor polynomial at the finer scale Fine.     *)
(* Matrices are written as tuples of rows, M[row][col].                    *)
(*                                                                         *)
(* Events.  The backend calls the handlers one at a time on one thread.    *)
(* Every specification below has every handler; they differ in the inputs  *)
(* the backend delivers (which keys, which mouse deltas, which sizes, how   *)
(* the clock advances).  Window sizes are positive.  The variable last      *)
(* records the event delivered last, and out the calls its handler made on  *)
(* the rendering backend, on window and on stdout.                          *)
(***************************************************************************)
EXTENDS Integers, Sequences, FiniteSets, TLC

VARIABLES
    perspective,  \* Stage.perspective : Matrix4<f32>
    camera_pos,   \* Stage.camera_pos  : Point3<f32>, <<x, y, z>>
    view,         \* Stage.view        : Matrix4<f32>
    keys_down,    \* Stage.keys_down   : HashSet<KeyCode>
    last_frame,   \* Stage.last_frame  : Instant
    rotate_x,     \* Stage.rotate_x    : f32, pitch
    rotate_y,     \* Stage.rotate_y    : f32, yaw
    fov,          \* Stage.fov         : f32, degrees (not scaled)
    near,         \* Stage.near        : f32
    far,          \* Stage.far         : f32
    now,          \* the monotonic clock read by Instant::now / elapsed
    last,         \* the event the backend delivered last
    out           \* the calls the last handler made on ctx, window and stdout

vars == <<perspective, camera_pos, view, keys_down, last_frame, rotate_x,
          rotate_y, fov, near, far, now, last, out>>

stage == <<perspective, camera_pos, view, keys_down, last_frame, rotate_x,
           rotate_y, fov, near, far>>

-----------------------------------------------------------------------------
(* Bounds of the exploration *)

\* the clock stops advancing at MaxTime (1.0 s)
MaxTime == 100
\* mouse events that would turn the yaw beyond MaxYaw (a quarter turn) are not delivered
MaxYaw == 157
\* mouse events that would turn the pitch beyond MaxPitch (2 rad, beyond pi/2) are not delivered
MaxPitch == 200

\* the clock advances in steps of 0.5 s
TickSteps == {50}
\* the clock advances in one step of 1.0 s
TickWhole == {100}
\* mouse deltas delivered, in pixels: a quarter turn of yaw and 2 rad of pitch, either way
MouseDeltas == {<<157, 200>>, <<-157, -200>>}
\* mouse deltas that turn the yaw by 1.05 rad (60 degrees) either way
MouseOblique == {<<105, 0>>, <<-105, 0>>}
\* a mouse event that reports no motion
MouseStill == {<<0, 0>>}
\* window sizes reported by the backend, <<width, height>>
Sizes == {<<800, 600>>, <<600, 600>>}
\* the window keeps its size
SizeFixed == {<<800, 600>>}

-----------------------------------------------------------------------------
(* Fixed-point arithmetic standing for f32 *)

Scale == 100
Fine == 10000

Abs(a) == IF a < 0 THEN -a ELSE a
Sgn(a) == IF a < 0 THEN -1 ELSE IF a > 0 THEN 1 ELSE 0

\* a / b rounded to the nearest integer, ties away from zero (b # 0)
RDiv(a, b) == Sgn(a) * Sgn(b) * ((2 * Abs(a) + Abs(b)) \div (2 * Abs(b)))

\* the product and the quotient of two scaled numbers
MulS(a, b) == RDiv(a * b, Scale)
DivS(a, b) == RDiv(a * Scale, b)

\* pi and pi/2 at scale Fine
PiFine == 31416
HalfPiFine == 15708

\* x (an angle at scale Fine) brought into (-pi, pi]
Wrap(x) ==
    LET m == x % (2 * PiFine)
    IN  IF m > PiFine THEN m - 2 * PiFine ELSE m

\* Wrap(x) folded into [-pi/2, pi/2] with the same sine
Fold(x) ==
    LET w == Wrap(x)
    IN  IF w > HalfPiFine THEN PiFine - w
        ELSE IF w < -HalfPiFine THEN -PiFine - w
        ELSE w

\* sin of an angle at scale Fine, result at scale Fine: x - x^3/3! + x^5/5! - ... + x^9/9!
SinFine(x) ==
    LET r  == Fold(x)
        r2 == RDiv(r * r, Fine)
        t3 == RDiv(RDiv(r * r2, Fine), 6)
        t5 == RDiv(RDiv(t3 * r2, Fine), 20)
        t7 == RDiv(RDiv(t5 * r2, Fine), 42)
        t9 == RDiv(RDiv(t7 * r2, Fine), 72)
    IN  r - t3 + t5 - t7 + t9

\* f32::sin and f32::cos of a scaled angle, scaled
Sin(a) == RDiv(SinFine(a * (Fine \div Scale)), Fine \div Scale)
Cos(a) == RDiv(SinFine(a * (Fine \div Scale) + HalfPiFine), Fine \div Scale)

-----------------------------------------------------------------------------
(* cgmath vectors and matrices *)

Vec3Add(u, v) == <<u[1] + v[1], u[2] + v[2], u[3] + v[3]>>
Vec3Neg(u) == <<-u[1], -u[2], -u[3]>>
\* Vector3 * f32
Vec3MulS(u, s) == <<MulS(u[1], s), MulS(u[2], s), MulS(u[3], s)>>

Identity4 ==
    << <<Scale, 0, 0, 0>>,
       <<0, Scale, 0, 0>>,
       <<0, 0, Scale, 0>>,
       <<0, 0, 0, Scale>> >>

\* Matrix4::from_translation
FromTranslation(v) ==
    << <<Scale, 0, 0, v[1]>>,
       <<0, Scale, 0, v[2]>>,
       <<0, 0, Scale, v[3]>>,
       <<0, 0, 0, Scale>> >>

\* Basis3::from_angle_y
FromAngleY(a) ==
    << <<Cos(a), 0, Sin(a)>>,
       <<0, Scale, 0>>,
       <<-Sin(a), 0, Cos(a)>> >>

\* Basis3::from_angle_x
FromAngleX(a) ==
    << <<Scale, 0, 0>>,
       <<0, Cos(a), -Sin(a)>>,
       <<0, Sin(a), Cos(a)>> >>

\* Basis3 * Basis3
Mat3Mul(A, B) ==
    [i \in 1..3 |-> [j \in 1..3 |->
        MulS(A[i][1], B[1][j]) + MulS(A[i][2], B[2][j]) + MulS(A[i][3], B[3][j])]]

\* Matrix3 into Matrix4
Mat4From3(A) ==
    << <<A[1][1], A[1][2], A[1][3], 0>>,
       <<A[2][1], A[2][2], A[2][3], 0>>,
       <<A[3][1], A[3][2], A[3][3], 0>>,
       <<0, 0, 0, Scale>> >>

\* Matrix4 * Matrix4
Mat4Mul(A, B) ==
    [i \in 1..4 |-> [j \in 1..4 |->
        MulS(A[i][1], B[1][j]) + MulS(A[i][2], B[2][j])
        + MulS(A[i][3], B[3][j]) + MulS(A[i][4], B[4][j])]]

\* the three indices of 1..4 other than i, in order
Others(i) == IF i = 1 THEN <<2, 3, 4>>
             ELSE IF i = 2 THEN <<1, 3, 4>>
             ELSE IF i = 3 THEN <<1, 2, 4>>
             ELSE <<1, 2, 3>>

\* the determinant of the 3x3 minor of A without row i and column j (unscaled product)
Minor(A, i, j) ==
    LET r == Others(i)
        c == Others(j)
    IN    A[r[1]][c[1]] * (A[r[2]][c[2]] * A[r[3]][c[3]] - A[r[2]][c[3]] * A[r[3]][c[2]])
        - A[r[1]][c[2]] * (A[r[2]][c[1]] * A[r[3]][c[3]] - A[r[2]][c[3]] * A[r[3]][c[1]])
        + A[r[1]][c[3]] * (A[r[2]][c[1]] * A[r[3]][c[2]] - A[r[2]][c[2]] * A[r[3]][c[1]])

Cofactor(A, i, j) == (IF (i + j) % 2 = 0 THEN 1 ELSE -1) * Minor(A, i, j)

\* Matrix4::determinant, as det(A) * Scale^3: each entry of the first row times its
\* cofactor, the cofactor brought from Scale^3 down to Scale^2
Determinant(A) ==
    A[1][1] * RDiv(Cofactor(A, 1, 1), Scale)
    + A[1][2] * RDiv(Cofactor(A, 1, 2), Scale)
    + A[1][3] * RDiv(Cofactor(A, 1, 3), Scale)
    + A[1][4] * RDiv(Cofactor(A, 1, 4), Scale)

\* Matrix4::invert, an Option: None when the determinant is 0, else Some(adjugate / det)
Invert(A) ==
    LET det == Determinant(A)
    IN  IF det = 0 THEN [some |-> FALSE, m |-> Identity4]
        ELSE [some |-> TRUE,
              m |-> [i \in 1..4 |-> [j \in 1..4 |-> RDiv(Cofactor(A, j, i) * Scale, det)]]]

\* cgmath::perspective(Deg(fovy), aspect, near, far): fovy in degrees (unscaled),
\* the others scaled; f = cot(fovy / 2)
Perspective(fovy, aspect, n, f) ==
    LET half == RDiv(RDiv(fovy * PiFine, 180), 2)
        cot  == RDiv(SinFine(half + HalfPiFine) * Scale, SinFine(half))
    IN  << <<DivS(cot, aspect), 0, 0, 0>>,
           <<0, cot, 0, 0>>,
           <<0, 0, DivS(f + n, n - f), DivS(MulS(2 * f, n), n - f)>>,
           <<0, 0, -Scale, 0>> >>

\* width / height of two f32 pixel counts (unscaled), scaled
Aspect(width, height) == RDiv(width * Scale, height)

-----------------------------------------------------------------------------
(* Events and calls *)

KeyCode == {"W", "A", "S", "D", "Escape", "Space"}
KeyMods == {"none", "shift"}
MoveKeys == {"W", "A", "S", "D"}

NoKey == "-"

\* an event delivered by the backend: its kind and its arguments
Event(ev, key, repeat, a, b) == [ev |-> ev, key |-> key, repeat |-> repeat, a |-> a, b |-> b]

\* the instance transforms of draw
World1 == FromTranslation(<<0, 0, -30>>)
World2 == FromTranslation(<<0, 0, -50>>)

\* DrawCalls with the uniforms applied before the pipeline is
DrawCallsUniformsFirst(p, v) ==
    << <<"begin_default_pass", <<0, 0, 0, Scale>>, Scale>>,
       <<"apply_uniforms", p, v, World1, World2>>,
       <<"apply_pipeline">>,
       <<"apply_bindings">>,
       <<"draw", 0, 3, 2>>,
       <<"end_render_pass">>,
       <<"commit_frame">> >>

\* the calls of one draw, in order
DrawCalls(p, v) ==
    << <<"begin_default_pass", <<0, 0, 0, Scale>>, Scale>>,
       <<"apply_pipeline">>,
       <<"apply_bindings">>,
       <<"apply_uniforms", p, v, World1, World2>>,
       <<"draw", 0, 3, 2>>,
       <<"end_render_pass">>,
       <<"commit_frame">> >>

-----------------------------------------------------------------------------
(* Stage *)

\* Forward as computed once for the yaw of Stage::new
ForwardOfStartYaw(yaw) == <<-Sin(0), 0, -Cos(0)>>

\* forward and right of update, from the yaw
Forward(yaw) == <<-Sin(yaw), 0, -Cos(yaw)>>
Right(yaw) == <<Cos(yaw), 0, -Sin(yaw)>>

\* Move with the four key tests chained by else: only the first key held counts
MoveFirstKeyOnly(pos, keys, yaw, dt) ==
    LET forward == Forward(yaw)
        right   == Right(yaw)
    IN  IF "W" \in keys THEN Vec3Add(pos, Vec3MulS(forward, dt))
        ELSE IF "A" \in keys THEN Vec3Add(pos, Vec3MulS(Vec3Neg(right), dt))
        ELSE IF "S" \in keys THEN Vec3Add(pos, Vec3MulS(Vec3Neg(forward), dt))
        ELSE IF "D" \in keys THEN Vec3Add(pos, Vec3MulS(right, dt))
        ELSE pos

\* camera_pos after the four key tests of update, in the order of the code
Move(pos, keys, yaw, dt) ==
    LET forward == Forward(yaw)
        right   == Right(yaw)
        p1 == IF "W" \in keys THEN Vec3Add(pos, Vec3MulS(forward, dt)) ELSE pos
        p2 == IF "A" \in keys THEN Vec3Add(p1, Vec3MulS(Vec3Neg(right), dt)) ELSE p1
        p3 == IF "S" \in keys THEN Vec3Add(p2, Vec3MulS(Vec3Neg(forward), dt)) ELSE p2
        p4 == IF "D" \in keys THEN Vec3Add(p3, Vec3MulS(right, dt)) ELSE p3
    IN  p4

\* translate * rotate of update
CameraTransform(pos, yaw, pitch) ==
    Mat4Mul(FromTranslation(pos), Mat4From3(Mat3Mul(FromAngleY(yaw), FromAngleX(pitch))))

\* Stage::new, with window::screen_size() one of sizes
new(sizes) ==
    /\ \E size \in sizes :
           perspective = Perspective(80, Aspect(size[1], size[2]), 10, 10000)
    /\ camera_pos = <<0, 0, Scale>>
    /\ view = Identity4
    /\ keys_down = {}
    /\ last_frame = 0
    /\ now = 0
    /\ rotate_x = 0
    /\ rotate_y = 0
    /\ fov = 80
    /\ near = 10
    /\ far = 10000
    /\ last = Event("new", NoKey, FALSE, 0, 0)
    /\ out = <<>>

\* the monotonic clock advances by d
Tick(d) ==
    /\ now + d <= MaxTime
    /\ now' = now + d
    /\ last' = Event("tick", NoKey, FALSE, d, 0)
    /\ out' = <<>>
    /\ UNCHANGED stage

\* update with the view computed before the keys move the camera
UpdateViewBeforeMove ==
    \E delta_time \in {now - last_frame} :
    \E pos \in {Move(camera_pos, keys_down, rotate_y, delta_time)} :
    \E transform \in {CameraTransform(camera_pos, rotate_y, rotate_x)} :
    \E inv \in {Invert(transform)} :
        /\ inv.some
        /\ last_frame' = now
        /\ camera_pos' = pos
        /\ view' = inv.m
        /\ last' = Event("update", NoKey, FALSE, delta_time, 0)
        /\ out' = <<>>
        /\ UNCHANGED <<perspective, keys_down, rotate_x, rotate_y, fov, near, far, now>>

\* EventHandler::update; invert().unwrap() panics on None and the handler does not return.
\* (\E x \in {e} binds x to the value of e.)
update ==
    \E delta_time \in {now - last_frame} :
    \E pos \in {Move(camera_pos, keys_down, rotate_y, delta_time)} :
    \E transform \in {CameraTransform(pos, rotate_y, rotate_x)} :
    \E inv \in {Invert(transform)} :
        /\ inv.some
        /\ last_frame' = now
        /\ camera_pos' = pos
        /\ view' = inv.m
        /\ last' = Event("update", NoKey, FALSE, delta_time, 0)
        /\ out' = <<>>
        /\ UNCHANGED <<perspective, keys_down, rotate_x, rotate_y, fov, near, far, now>>

\* key_down_event where a key-down of a held key releases it
KeyDownToggles(keycode, keymods, repeat) ==
    /\ IF repeat
       THEN /\ out' = <<>>
            /\ UNCHANGED keys_down
       ELSE /\ out' = IF keycode = "Escape" THEN << <<"quit">> >> ELSE <<>>
            /\ keys_down' = IF keycode \in keys_down
                             THEN keys_down \ {keycode}
                             ELSE keys_down \cup {keycode}
    /\ last' = Event("key_down", keycode, repeat, 0, 0)
    /\ UNCHANGED <<perspective, camera_pos, view, last_frame, rotate_x, rotate_y,
                   fov, near, far, now>>

\* key_down_event with the quit key tested before the repeat flag
KeyDownQuitsOnRepeat(keycode, keymods, repeat) ==
    /\ out' = IF keycode = "Escape" THEN << <<"quit">> >> ELSE <<>>
    /\ keys_down' = IF repeat THEN keys_down ELSE keys_down \cup {keycode}
    /\ last' = Event("key_down", keycode, repeat, 0, 0)
    /\ UNCHANGED <<perspective, camera_pos, view, last_frame, rotate_x, rotate_y,
                   fov, near, far, now>>

\* key_down_event that records the four movement keys only
KeyDownMovementOnly(keycode, keymods, repeat) ==
    /\ IF repeat
       THEN /\ out' = <<>>
            /\ UNCHANGED keys_down
       ELSE /\ out' = IF keycode = "Escape" THEN << <<"quit">> >> ELSE <<>>
            /\ keys_down' = IF keycode \in {"W", "A", "S", "D"}
                             THEN keys_down \cup {keycode}
                             ELSE keys_down
    /\ last' = Event("key_down", keycode, repeat, 0, 0)
    /\ UNCHANGED <<perspective, camera_pos, view, last_frame, rotate_x, rotate_y,
                   fov, near, far, now>>

\* EventHandler::key_down_event
key_down_event(keycode, keymods, repeat) ==
    /\ IF repeat
       THEN /\ out' = <<>>
            /\ UNCHANGED keys_down
       ELSE /\ out' = IF keycode = "Escape" THEN << <<"quit">> >> ELSE <<>>
            /\ keys_down' = keys_down \cup {keycode}
    /\ last' = Event("key_down", keycode, repeat, 0, 0)
    /\ UNCHANGED <<perspective, camera_pos, view, last_frame, rotate_x, rotate_y,
                   fov, near, far, now>>

\* key_up_event that releases every key
KeyUpClearsAll(keycode, keymods) ==
    /\ keys_down' = {}
    /\ last' = Event("key_up", keycode, FALSE, 0, 0)
    /\ out' = <<>>
    /\ UNCHANGED <<perspective, camera_pos, view, last_frame, rotate_x, rotate_y,
                   fov, near, far, now>>

\* EventHandler::key_up_event
key_up_event(keycode, keymods) ==
    /\ keys_down' = keys_down \ {keycode}
    /\ last' = Event("key_up", keycode, FALSE, 0, 0)
    /\ out' = <<>>
    /\ UNCHANGED <<perspective, camera_pos, view, last_frame, rotate_x, rotate_y,
                   fov, near, far, now>>

\* resize_event with the aspect ratio height / width
ResizeInvertedAspect(width, height) ==
    /\ perspective' = Perspective(fov, Aspect(height, width), near, far)
    /\ last' = Event("resize", NoKey, FALSE, width, height)
    /\ out' = <<>>
    /\ UNCHANGED <<camera_pos, view, keys_down, last_frame, rotate_x, rotate_y,
                   fov, near, far, now>>

\* EventHandler::resize_event
resize_event(width, height) ==
    /\ perspective' = Perspective(fov, Aspect(width, height), near, far)
    /\ last' = Event("resize", NoKey, FALSE, width, height)
    /\ out' = <<>>
    /\ UNCHANGED <<camera_pos, view, keys_down, last_frame, rotate_x, rotate_y,
                   fov, near, far, now>>

\* the factor 0.01 of raw_mouse_motion, scaled
Sensitivity == 1

\* the value x kept within [lo, hi]
Clamp(x, lo, hi) == IF x < lo THEN lo ELSE IF x > hi THEN hi ELSE x

\* raw_mouse_motion with the pitch clamped to a quarter turn either way
RawMouseMotionClamped(dx, dy) ==
    /\ Abs(rotate_y + (-dx) * Sensitivity) <= MaxYaw
    /\ Abs(rotate_x + (-dy) * Sensitivity) <= MaxPitch
    /\ rotate_x' = Clamp(rotate_x + (-dy) * Sensitivity, -157, 157)
    /\ rotate_y' = rotate_y + (-dx) * Sensitivity
    /\ last' = Event("raw_mouse_motion", NoKey, FALSE, dx, dy)
    /\ out' = << <<"println", dx, dy>> >>
    /\ UNCHANGED <<perspective, camera_pos, view, keys_down, last_frame,
                   fov, near, far, now>>

\* EventHandler::raw_mouse_motion
raw_mouse_motion(dx, dy) ==
    /\ Abs(rotate_y + (-dx) * Sensitivity) <= MaxYaw
    /\ Abs(rotate_x + (-dy) * Sensitivity) <= MaxPitch
    /\ rotate_x' = rotate_x + (-dy) * Sensitivity
    /\ rotate_y' = rotate_y + (-dx) * Sensitivity
    /\ last' = Event("raw_mouse_motion", NoKey, FALSE, dx, dy)
    /\ out' = << <<"println", dx, dy>> >>
    /\ UNCHANGED <<perspective, camera_pos, view, keys_down, last_frame,
                   fov, near, far, now>>

\* EventHandler::draw
draw ==
    /\ out' = DrawCalls(perspective, view)
    /\ last' = Event("draw", NoKey, FALSE, 0, 0)
    /\ UNCHANGED <<stage, now>>

\* one event of the backend's loop, its inputs drawn from the given sets
Handlers(ticks, keys, mods, deltas, sizes) ==
    \/ \E d \in ticks : Tick(d)
    \/ update
    \/ \E k \in keys, m \in mods, r \in BOOLEAN : key_down_event(k, m, r)
    \/ \E k \in keys, m \in mods : key_up_event(k, m)
    \/ \E s \in sizes : resize_event(s[1], s[2])
    \/ \E d \in deltas : raw_mouse_motion(d[1], d[2])
    \/ draw

\* every handler, with the forward key and the quit key, mouse turns and resizes
Init == new(Sizes)
Next == Handlers(TickSteps, {"W", "Escape"}, {"none"}, MouseDeltas, Sizes)
Spec == Init /\ [][Next]_vars

\* every handler, with every key and modifier; the mouse rests and the window keeps its size
InitKeys == new(SizeFixed)
NextKeys == Handlers(TickSteps, KeyCode, KeyMods, MouseStill, SizeFixed)
SpecKeys == InitKeys /\ [][NextKeys]_vars

\* every handler, with the four movement keys and oblique yaws; the window keeps its size
InitMove == new(SizeFixed)
NextMove == Handlers(TickWhole, MoveKeys, {"none"}, MouseOblique, SizeFixed)
SpecMove == InitMove /\ [][NextMove]_vars

-----------------------------------------------------------------------------
(* Properties *)

IsKeyDown(k, repeat) == last.ev = "key_down" /\ last.key = k /\ last.repeat = repeat

\* the number of window::quit calls among the calls o
QuitCalls(o) == Cardinality({i \in DOMAIN o : o[i][1] = "quit"})

\* |A[i][j] - B[i][j]| <= tol for every entry of two 4x4 matrices
Within(A, B, tol) == \A i \in 1..4, j \in 1..4 : Abs(A[i][j] - B[i][j]) <= tol

\* the view that update would store for the camera state as it is now
FreshView == Invert(CameraTransform(camera_pos, rotate_y, rotate_x)).m

\* the contribution of one movement key to the position, for yaw and dt
Displacement(k, yaw, dt) ==
    LET s == Sin(yaw)
        c == Cos(yaw)
    IN  IF k = "W" THEN <<MulS(-s, dt), 0, MulS(-c, dt)>>
        ELSE IF k = "S" THEN <<MulS(s, dt), 0, MulS(c, dt)>>
        ELSE IF k = "D" THEN <<MulS(c, dt), 0, MulS(-s, dt)>>
        ELSE IF k = "A" THEN <<MulS(-c, dt), 0, MulS(s, dt)>>
        ELSE <<0, 0, 0>>

\* the sum of the contributions of the keys of the set keys
RECURSIVE SumDisplacements(_, _, _)
SumDisplacements(keys, yaw, dt) ==
    IF keys = {} THEN <<0, 0, 0>>
    ELSE LET k == CHOOSE x \in keys : TRUE
         IN  Vec3Add(Displacement(k, yaw, dt), SumDisplacements(keys \ {k}, yaw, dt))

\* C1 as claimed: in every reachable state the stored view is the inverse of
\* translation(camera_pos) * rotation(rotate_y, rotate_x) of the current camera state,
\* also before the first update and between a mouse event and the next update.
C1_ViewNeverStale == view = FreshView

\* C1 as amended: in the state every update leaves, the stored view is the inverse of
\* translation(camera_pos) * rotation(rotate_y, rotate_x) of the camera state of that state
\* (view * transform is the identity within three hundredths), and no other event changes
\* the view: it is the identity until the first update and keeps its value from one update
\* to the next, whatever the mouse does in between.
C1_ViewFreshAfterUpdate ==
    /\ [](last.ev = "update" =>
            /\ view = FreshView
            /\ Within(Mat4Mul(view, CameraTransform(camera_pos, rotate_y, rotate_x)),
                      Identity4, 3))
    /\ [](last.ev = "new" => view = Identity4)
    /\ [][last'.ev # "update" => view' = view]_vars

\* an update has stored the view of a camera that has moved and turned
C1_Witness ==
    /\ last.ev = "update"
    /\ camera_pos = <<-50, 0, Scale>>
    /\ rotate_y = 157
    /\ rotate_x = 200
    /\ view # Identity4

\* C2: a key-down event (repeat or not) for a key that is already held leaves keys_down and
\* every other field of the Stage as they are, and an update with W the only movement key
\* held moves the camera by forward * delta_time once, however many key-down events for W
\* came before.
C2_HeldKeyDownIsNoOp ==
    [][ /\ (last'.ev = "key_down" /\ last'.key \in keys_down) =>
               /\ keys_down' = keys_down
               /\ UNCHANGED stage
        /\ (last'.ev = "update" /\ keys_down \cap MoveKeys = {"W"}) =>
               camera_pos' = Vec3Add(camera_pos, Vec3MulS(Forward(rotate_y), last'.a))
      ]_vars

\* an auto-repeat key-down for W arrived while W was held, 0.5 s after the last frame
C2_Witness ==
    /\ IsKeyDown("W", TRUE)
    /\ "W" \in keys_down
    /\ now - last_frame = 50

\* C3: the handler calls window::quit exactly once when the event is a key-down of Escape
\* that is not an auto-repeat, and never otherwise.
C3_QuitOncePerPress ==
    QuitCalls(out) = IF IsKeyDown("Escape", FALSE) THEN 1 ELSE 0

\* Escape was pressed after the camera had moved: one quit request
C3_Witness ==
    /\ IsKeyDown("Escape", FALSE)
    /\ out = << <<"quit">> >>
    /\ camera_pos # <<0, 0, Scale>>

\* C4: an update moves the position by the sum of the displacements of the movement keys
\* held (W: +forward*dt, S: -forward*dt, D: +right*dt, A: -right*dt, not normalised); with
\* none held, or only opposite pairs held, the position stays; from (0,0,1) with yaw 0 and
\* only W held, an update over 1.0 s yields (0,0,0).
C4_PositionIsSumOfDisplacements ==
    [][ last'.ev = "update" =>
          LET held == keys_down \cap MoveKeys
              dt   == last'.a
          IN  /\ dt = now - last_frame
              /\ dt >= 0
              /\ camera_pos' = Vec3Add(camera_pos, SumDisplacements(held, rotate_y, dt))
              /\ held \in {{}, {"W", "S"}, {"A", "D"}, MoveKeys} => camera_pos' = camera_pos
              /\ (held = {"W"} /\ rotate_y = 0 /\ camera_pos = <<0, 0, Scale>> /\ dt = Scale)
                     => camera_pos' = <<0, 0, 0>>
      ]_vars

\* W alone was held for 1.0 s from the start: the camera is at the origin
C4_Witness ==
    /\ last.ev = "update"
    /\ last.a = Scale
    /\ keys_down = {"W"}
    /\ rotate_y = 0
    /\ camera_pos = <<0, 0, 0>>

\* C5: a mouse event changes rotate_y at once, and the update that follows moves along the
\* forward vector of the yaw as it is then: with the yaw at a quarter turn (1.57 rad) and W
\* the only movement key held, the step is (-1, 0, 0) * dt, not (0, 0, -1) * dt.
C5_UpdateUsesCurrentYaw ==
    [][ /\ last'.ev = "raw_mouse_motion" => rotate_y' = rotate_y - last'.a * Sensitivity
        /\ (last'.ev = "update" /\ keys_down \cap MoveKeys = {"W"}) =>
               /\ rotate_y = 157 => camera_pos' = Vec3Add(camera_pos, <<-last'.a, 0, 0>>)
               /\ rotate_y = 0 => camera_pos' = Vec3Add(camera_pos, <<0, 0, -last'.a>>)
               /\ rotate_y = -157 => camera_pos' = Vec3Add(camera_pos, <<last'.a, 0, 0>>)
      ]_vars

\* the mouse turned the camera a quarter turn, then W was held for 1.0 s
C5_Witness ==
    /\ last.ev = "update"
    /\ last.a = Scale
    /\ rotate_y = 157
    /\ "W" \in keys_down
    /\ camera_pos = <<-Scale, 0, Scale>>

\* C6: a resize to width x height sets the projection to the perspective of the unchanged
\* fov, near and far with aspect width / height and leaves the rest of the Stage as it is;
\* a draw submits the projection stored then; 0 < near < far always.
C6_ResizeRebuildsProjection ==
    /\ [](0 < near /\ near < far)
    /\ [][ /\ last'.ev = "resize" =>
                /\ perspective' = Perspective(fov, DivS(last'.a * Scale, last'.b * Scale),
                                              near, far)
                /\ perspective'[1][1] = DivS(perspective'[2][2], Aspect(last'.a, last'.b))
                /\ UNCHANGED <<camera_pos, rotate_x, rotate_y, view, keys_down,
                               fov, near, far, last_frame>>
           /\ last'.ev = "draw" =>
                /\ out'[4][1] = "apply_uniforms"
                /\ out'[4][2] = perspective
                /\ perspective' = perspective
         ]_vars

\* the window became square after the camera had moved and a key was held
C6_Witness ==
    /\ last.ev = "resize"
    /\ last.a = 600
    /\ last.b = 600
    /\ perspective[1][1] = perspective[2][2]
    /\ camera_pos # <<0, 0, Scale>>
    /\ keys_down # {}

\* C7: a key-up of k removes k from keys_down whether or not k was held, leaves every other
\* key's membership and the camera, the view and the projection as they are, and k comes
\* back to keys_down only by a key-down of k that is not an auto-repeat; an update moves
\* the camera by the keys then in keys_down alone.
C7_KeyUpRemovesKey ==
    [][ /\ last'.ev = "key_up" =>
              /\ last'.key \notin keys_down'
              /\ keys_down' = keys_down \ {last'.key}
              /\ UNCHANGED <<camera_pos, rotate_x, rotate_y, view, perspective, last_frame,
                             fov, near, far>>
        /\ \A k \in KeyCode :
              (k \notin keys_down /\ k \in keys_down') =>
                  (last'.ev = "key_down" /\ last'.key = k /\ ~last'.repeat)
        /\ last'.ev = "update" =>
              camera_pos' = Vec3Add(camera_pos,
                  SumDisplacements(keys_down \cap MoveKeys, rotate_y, last'.a))
      ]_vars

\* W was released while A and Escape stay held
C7_Witness ==
    /\ last.ev = "key_up"
    /\ last.key = "W"
    /\ keys_down = {"A", "Escape"}

\* C8: a draw makes these seven calls in this order, each once: begin pass (clear colour
\* opaque black, clear depth 1.0), apply pipeline, apply bindings, apply uniforms (the stored
\* projection, the stored view, the translations (0,0,-0.3) and (0,0,-0.5)), draw(0, 3, 2),
\* end pass, commit frame; and it changes nothing of the Stage.
C8_DrawCallOrder ==
    [][ last'.ev = "draw" =>
          /\ out' = << <<"begin_default_pass", <<0, 0, 0, 100>>, 100>>,
                       <<"apply_pipeline">>,
                       <<"apply_bindings">>,
                       <<"apply_uniforms", perspective, view,
                         << <<100, 0, 0, 0>>, <<0, 100, 0, 0>>, <<0, 0, 100, -30>>,
                            <<0, 0, 0, 100>> >>,
                         << <<100, 0, 0, 0>>, <<0, 100, 0, 0>>, <<0, 0, 100, -50>>,
                            <<0, 0, 0, 100>> >> >>,
                       <<"draw", 0, 3, 2>>,
                       <<"end_render_pass">>,
                       <<"commit_frame">> >>
          /\ UNCHANGED stage
      ]_vars

\* a frame was drawn with the view of a camera that has moved
C8_Witness ==
    /\ last.ev = "draw"
    /\ Len(out) = 7
    /\ out[4][3] = view
    /\ view # Identity4
    /\ camera_pos # <<0, 0, Scale>>

\* C9 as claimed: keys_down holds movement keys only; a key-down of any other key, Escape
\* included, adds nothing.
C9_OnlyMovementKeys == keys_down \subseteq MoveKeys

\* C9 as amended: keys_down holds every key that is held, movement key or not: a key-down
\* that is not an auto-repeat adds its key whatever the key (Escape and Space as well), an
\* auto-repeat key-down adds nothing, and only the membership of W, A, S and D has an effect
\* on update.
C9_AnyKeyIsRecorded ==
    [][ /\ last'.ev = "key_down" =>
              keys_down' = IF last'.repeat THEN keys_down ELSE keys_down \cup {last'.key}
        /\ last'.ev = "update" =>
              camera_pos' = Move(camera_pos, keys_down \cap MoveKeys, rotate_y, last'.a)
      ]_vars

\* Escape and Space are held beside W
C9_Witness ==
    /\ IsKeyDown("Space", FALSE)
    /\ keys_down = {"W", "Escape", "Space"}

\* C10: a mouse event (dx, dy) lowers rotate_y by dx * 0.01 and rotate_x by dy * 0.01, with
\* no clamping, and leaves the position, keys_down, the projection (and the view) as they
\* are; the step of an update is the same whatever the pitch, and the y component of the
\* position is 0 in every reachable state.
C10_MouseTurnsOnly ==
    /\ [](camera_pos[2] = 0)
    /\ [][ /\ last'.ev = "raw_mouse_motion" =>
                /\ rotate_y' = rotate_y - last'.a * Sensitivity
                /\ rotate_x' = rotate_x - last'.b * Sensitivity
                /\ UNCHANGED <<camera_pos, keys_down, perspective, view, last_frame,
                               fov, near, far>>
           /\ last'.ev = "update" =>
                camera_pos' = Vec3Add(camera_pos,
                    SumDisplacements(keys_down \cap MoveKeys, rotate_y, last'.a))
         ]_vars

\* the pitch went beyond a quarter turn (2 rad) after the camera had moved
C10_Witness ==
    /\ last.ev = "raw_mouse_motion"
    /\ rotate_x = 200
    /\ rotate_x > HalfPiFine \div (Fine \div Scale)
    /\ camera_pos # <<0, 0, Scale>>

====
